---- MODULE Spec2Model ----
(***************************************************************************)
(* Polynomial regression: the dense linear solver (solveLinearSystem), the *)
(* normal-equations regressor (calculatePolynomialRegression), the         *)
(* evaluator (evaluatePolynomial), the degree sweep (findBestFitPolynomial) *)
(* and the view-layer request handler (handleTrain / handleReset).          *)
(*                                                                         *)
(* Numbers of the program are IEEE doubles.  The model computes in exact    *)
(* rational arithmetic over small integer inputs: a number is a pair        *)
(* <<num, den>> in lowest terms with den > 0.  Sequences are 1-based, so    *)
(* the code's row/column index i is the model's i + 1.                      *)
(***************************************************************************)
EXTENDS Integers, Sequences, FiniteSets, TLC

(***************************************************************************)
(* Number arithmetic: exact rationals extended with the IEEE specials.      *)
(* <<1, 0>> is Infinity, <<-1, 0>> is -Infinity and <<0, 0>> is NaN, so     *)
(* that every operation is total, as it is on doubles.                      *)
(***************************************************************************)
Abs(a) == IF a < 0 THEN -a ELSE a

Sign(a) == IF a < 0 THEN -1 ELSE IF a > 0 THEN 1 ELSE 0

RECURSIVE GCD(_, _)
GCD(a, b) == IF b = 0 THEN a ELSE GCD(b, a % b)

NaN == << 0, 0 >>

Infinity == << 1, 0 >>

NegInfinity == << -1, 0 >>

IsNaN(p) == p = NaN

IsFinite(p) == p[2] # 0

RNorm(num, den) ==
    IF den = 0 THEN << Sign(num), 0 >>
    ELSE LET g == GCD(Abs(num), Abs(den))
         IN  << (Sign(den) * num) \div g, Abs(den) \div g >>

Rat(a) == << a, 1 >>

RAdd(p, q) ==
    IF IsNaN(p) \/ IsNaN(q) THEN NaN
    ELSE IF ~IsFinite(p) /\ ~IsFinite(q) THEN (IF p = q THEN p ELSE NaN)
    ELSE IF ~IsFinite(p) THEN p
    ELSE IF ~IsFinite(q) THEN q
    ELSE LET g == GCD(p[2], q[2])
         IN  RNorm(p[1] * (q[2] \div g) + q[1] * (p[2] \div g),
                   (p[2] \div g) * q[2])

RNeg(p) == << -p[1], p[2] >>

RSub(p, q) == RAdd(p, RNeg(q))

RMul(p, q) ==
    IF IsNaN(p) \/ IsNaN(q) THEN NaN
    ELSE IF ~IsFinite(p) \/ ~IsFinite(q)
         THEN (IF p[1] = 0 \/ q[1] = 0 THEN NaN
               ELSE << Sign(p[1]) * Sign(q[1]), 0 >>)
    ELSE LET g1 == GCD(Abs(p[1]), q[2])
             g2 == GCD(Abs(q[1]), p[2])
         IN  RNorm((p[1] \div g1) * (q[1] \div g2),
                   (p[2] \div g2) * (q[2] \div g1))

\* 1 / q; 1 / 0 is Infinity and 1 / Infinity is 0.
RInv(q) ==
    IF IsNaN(q) THEN NaN
    ELSE IF ~IsFinite(q) THEN Rat(0)
    ELSE RNorm(q[2], q[1])

RDiv(p, q) == RMul(p, RInv(q))

RAbs(p) == << Abs(p[1]), p[2] >>

\* p < q; every comparison with NaN is false.
RLess(p, q) ==
    IF IsNaN(p) \/ IsNaN(q) THEN FALSE
    ELSE IF ~IsFinite(p) \/ ~IsFinite(q)
         THEN (IF IsFinite(p) THEN 0 ELSE p[1]) < (IF IsFinite(q) THEN 0 ELSE q[1])
    ELSE RSub(p, q)[1] < 0

RECURSIVE RPow(_, _)
\* Math.pow(x, j) for an integer exponent j >= 0; Math.pow(x, 0) is 1 for every x.
RPow(x, j) == IF j = 0 THEN Rat(1) ELSE RMul(x, RPow(x, j - 1))

RECURSIVE RSum(_)
\* let sum = 0; for (...) sum += s[k]
RSum(s) == IF Len(s) = 0 THEN Rat(0) ELSE RAdd(RSum(SubSeq(s, 1, Len(s) - 1)), s[Len(s)])

(***************************************************************************)
(* The fixed tolerance 1e-10 of the solver and of the sweep.  The model's   *)
(* integers are 32 bits wide, so 1e-10 is held as 1e-5 * 1e-5 and the       *)
(* comparison num/den < 1e-10, that is num * 10^10 < den, is carried out by *)
(* two integer divisions of den.                                           *)
(***************************************************************************)
TolRoot == 10 ^ 5

\* Math.abs(q) < 1e-10
AbsBelowTol(q) ==
    /\ IsFinite(q)
    /\ Abs(q[1]) <= ((q[2] - 1) \div TolRoot) \div TolRoot

\* q <= 1e-10
AtMostTol(q) ==
    \/ q = NegInfinity
    \/ /\ IsFinite(q)
       /\ q[1] <= (q[2] \div TolRoot) \div TolRoot

(***************************************************************************)
(* solveLinearSystem: Gaussian elimination with partial pivoting and full   *)
(* reduction on the augmented matrix m = [A | b].                           *)
(***************************************************************************)
\* m[i] = [...matrixA[i], vectorB[i]]
Augmented(matrixA, vectorB) ==
    [i \in 1..Len(matrixA) |-> Append(matrixA[i], vectorB[i])]

RECURSIVE FindPivot(_, _, _, _)
\* for (k = i + 1; k < n; k++) if (|m[k][i]| > |m[maxRow][i]|) maxRow = k
FindPivot(m, i, k, maxRow) ==
    IF k > Len(m) THEN maxRow
    ELSE FindPivot(m, i, k + 1,
                   IF RLess(RAbs(m[maxRow][i]), RAbs(m[k][i])) THEN k ELSE maxRow)

\* [m[i], m[maxRow]] = [m[maxRow], m[i]]
SwapRows(m, i, r) == [m EXCEPT ![i] = m[r], ![r] = m[i]]

\* Mutant: the singularity check left out.
SingularPivot_Unchecked(m, i) == FALSE

\* if (Math.abs(m[i][i]) < 1e-10) throw
SingularPivot(m, i) == AbsBelowTol(m[i][i])

\* m[i][k] /= m[i][i] for k in i+1..n, then m[i][i] = 1
MakePivotOne(m, i) ==
    [m EXCEPT ![i] = [k \in 1..Len(m) + 1 |->
        IF k > i THEN RDiv(m[i][k], m[i][i])
        ELSE IF k = i THEN Rat(1)
        ELSE m[i][k]]]

\* Mutant: forward elimination only (rows below the pivot), as in a solver
\* that relies on a back-substitution pass.
EliminateOthers_BelowOnly(m, i) ==
    [k \in 1..Len(m) |->
        IF k <= i THEN m[k]
        ELSE [j \in 1..Len(m) + 1 |->
                IF j >= i THEN RSub(m[k][j], RMul(m[k][i], m[i][j]))
                ELSE m[k][j]]]

\* for every row k # i: m[k][j] -= m[k][i] * m[i][j] for j in i..n
EliminateOthers(m, i) ==
    [k \in 1..Len(m) |->
        IF k = i THEN m[i]
        ELSE [j \in 1..Len(m) + 1 |->
                IF j >= i THEN RSub(m[k][j], RMul(m[k][i], m[i][j]))
                ELSE m[k][j]]]

\* The pivot row swapped into place for column i.
Pivoted(m, i) == SwapRows(m, i, FindPivot(m, i, i + 1, i))

\* One iteration of the outer loop on a non-singular pivot.
Reduced(m, i) == EliminateOthers(MakePivotOne(Pivoted(m, i), i), i)

\* solution[i] = m[i][n]
ReadSolution(m) == [i \in 1..Len(m) |-> m[i][Len(m) + 1]]

RECURSIVE SolveFrom(_, _)
SolveFrom(m, i) ==
    IF i > Len(m) THEN [ok |-> TRUE, solution |-> ReadSolution(m)]
    ELSE IF SingularPivot(Pivoted(m, i), i) THEN [ok |-> FALSE, solution |-> << >>]
    ELSE SolveFrom(Reduced(m, i), i + 1)

\* The whole function: ok = FALSE is the thrown "Matrix is singular" error.
SolveLinearSystem(matrixA, vectorB) == SolveFrom(Augmented(matrixA, vectorB), 1)

(***************************************************************************)
(* calculatePolynomialRegression: ordinary least squares through the normal *)
(* equations.  A point is a record [x, y].                                  *)
(***************************************************************************)
\* X[i][j] = Math.pow(points[i].x, j), j in 0..degree
DesignMatrix(points, degree) ==
    [i \in 1..Len(points) |-> [j \in 1..degree + 1 |-> RPow(points[i].x, j - 1)]]

\* Xt[i][j] = X[j][i]
Transposed(X, n) == [i \in 1..n |-> [j \in 1..Len(X) |-> X[j][i]]]

\* XtX[i][j] = sum over k of Xt[i][k] * X[k][j]
Gram(points, degree) ==
    LET X  == DesignMatrix(points, degree)
        Xt == Transposed(X, degree + 1)
    IN  [i \in 1..degree + 1 |-> [j \in 1..degree + 1 |->
            RSum([k \in 1..Len(points) |-> RMul(Xt[i][k], X[k][j])])]]

\* XtY[i] = sum over j of Xt[i][j] * Y[j]
Moments(points, degree) ==
    LET Xt == Transposed(DesignMatrix(points, degree), degree + 1)
    IN  [i \in 1..degree + 1 |->
            RSum([j \in 1..Len(points) |-> RMul(Xt[i][j], points[j].y)])]

\* What the regression hands on from the solver: the solution as the
\* coefficients, or the solver's error unchanged (there is no try/catch).
Propagated(solved) == [ok |-> solved.ok, coefficients |-> solved.solution]

CalculatePolynomialRegression(points, degree) ==
    Propagated(SolveLinearSystem(Gram(points, degree), Moments(points, degree)))

(***************************************************************************)
(* evaluatePolynomial and the residual sum of squares of the sweep.         *)
(***************************************************************************)
\* The largest finite magnitude of the evaluator's numbers.  It stands for
\* Number.MAX_VALUE (about 1.8e308), scaled down to the model's integers.
FloatMax == 10 ^ 4

\* The double a result is stored as: beyond the largest finite magnitude it
\* is Infinity or -Infinity.
Overflow(q) ==
    IF IsFinite(q) /\ Abs(q[1]) \div q[2] > FloatMax THEN << Sign(q[1]), 0 >>
    ELSE q

RECURSIVE FPow(_, _)
\* Math.pow(x, j), j >= 0
FPow(x, j) == IF j = 0 THEN Rat(1) ELSE Overflow(RMul(x, FPow(x, j - 1)))

RECURSIVE EvaluateFrom(_, _, _, _)
\* for (i = 0; i < coefficients.length; i++)
\*     result += coefficients[i] * Math.pow(x, i)
EvaluateFrom(coefficients, x, i, result) ==
    IF i > Len(coefficients) THEN result
    ELSE EvaluateFrom(coefficients, x, i + 1,
             Overflow(RAdd(result, Overflow(RMul(coefficients[i], FPow(x, i - 1))))))

\* let result = 0; ...; return result
EvaluatePolynomial(coefficients, x) == EvaluateFrom(coefficients, x, 1, Rat(0))

\* rss += Math.pow(point.y - evaluatePolynomial(coefficients, point.x), 2)
ResidualSumOfSquares(points, coefficients) ==
    RSum([i \in 1..Len(points) |->
            RPow(RSub(points[i].y, EvaluatePolynomial(coefficients, points[i].x)), 2)])

(***************************************************************************)
(* Math.log in fixed point: the natural logarithm in units of 1e-6.  It is  *)
(* the rounded true value on the primes below 50, carried to larger primes  *)
(* p by ln p = ln (p - 1) + 1/p + 1/(2 p^2) + ..., and exactly additive on   *)
(* products and quotients, so that two scores are equal in the model        *)
(* exactly when the real scores n ln(rss / n) + k ln n are equal.           *)
(***************************************************************************)
LnScale == 10 ^ 6

RECURSIVE LeastDivisor(_, _)
LeastDivisor(a, d) ==
    IF d > a \div d THEN a
    ELSE IF a % d = 0 THEN d
    ELSE LeastDivisor(a, d + 1)

RECURSIVE LnInt(_)
\* ln a in units of 1e-6, for an integer a >= 1.
LnInt(a) ==
    IF a = 1 THEN 0
    ELSE LET p == LeastDivisor(a, 2)
         IN  IF p < a THEN LnInt(p) + LnInt(a \div p)
             ELSE CASE p = 2  -> 693147
                    [] p = 3  -> 1098612
                    [] p = 5  -> 1609438
                    [] p = 7  -> 1945910
                    [] p = 11 -> 2397895
                    [] p = 13 -> 2564949
                    [] p = 17 -> 2833213
                    [] p = 19 -> 2944439
                    [] p = 23 -> 3135494
                    [] p = 29 -> 3367296
                    [] p = 31 -> 3433987
                    [] p = 37 -> 3610918
                    [] p = 41 -> 3713572
                    [] p = 43 -> 3761200
                    [] p = 47 -> 3850148
                    [] OTHER  -> LnInt(p - 1) + (LnScale \div p)
                                   + ((LnScale \div 2) \div p) \div p

\* Math.log(q): NaN below 0, -Infinity at 0, Infinity at Infinity.
Ln(q) ==
    IF IsNaN(q) \/ q[1] < 0 THEN NaN
    ELSE IF q[1] = 0 THEN NegInfinity
    ELSE IF ~IsFinite(q) THEN Infinity
    ELSE RNorm(LnInt(q[1]) - LnInt(q[2]), LnScale)

(***************************************************************************)
(* findBestFitPolynomial: the degree sweep.                                 *)
(***************************************************************************)
Min(a, b) == IF a < b THEN a ELSE b

DegreeCap == 20

\* const maxDegreeToTest = Math.min(20, n - 1)
MaxDegreeToTest(n) == Min(DegreeCap, n - 1)

\* What the try block obtains for one degree: the regression's coefficients
\* and their residual sum of squares, or the regression's error.
Fit(points, degree) ==
    LET r == CalculatePolynomialRegression(points, degree)
    IN  [ok |-> r.ok,
         coefficients |-> r.coefficients,
         rss |-> IF r.ok THEN ResidualSumOfSquares(points, r.coefficients) ELSE NaN]

\* score = n * Math.log(rss / n) + 2 * k  (AIC), + k * Math.log(n)  (BIC)
Score(rss, n, degree, method) ==
    LET k == degree + 1
    IN  IF method = "AIC"
        THEN RAdd(RMul(Rat(n), Ln(RDiv(rss, Rat(n)))), Rat(2 * k))
        ELSE RAdd(RMul(Rat(n), Ln(RDiv(rss, Rat(n)))), RMul(Rat(k), Ln(Rat(n))))

\* let bestScore = Infinity; let bestDegree = -1; let bestCoefficients = []
NoBest == [score |-> Infinity, degree |-> -1, coefficients |-> << >>]

\* Mutant: a candidate replaces the best when its score is less or equal.
SweepBody_LessOrEqual(best, degree, fit, n, method) ==
    IF ~fit.ok THEN best
    ELSE IF AtMostTol(fit.rss)
         THEN (IF best.degree = -1
               THEN [score |-> NegInfinity, degree |-> degree,
                     coefficients |-> fit.coefficients]
               ELSE best)
    ELSE LET score == Score(fit.rss, n, degree, method)
         IN  IF ~RLess(best.score, score)
             THEN [score |-> score, degree |-> degree,
                   coefficients |-> fit.coefficients]
             ELSE best

\* One iteration of the loop over degree: the try block and its catch.
SweepBody(best, degree, fit, n, method) ==
    IF ~fit.ok THEN best
    ELSE IF AtMostTol(fit.rss)
         THEN (IF best.degree = -1
               THEN [score |-> NegInfinity, degree |-> degree,
                     coefficients |-> fit.coefficients]
               ELSE best)
    ELSE LET score == Score(fit.rss, n, degree, method)
         IN  IF RLess(score, best.score)
             THEN [score |-> score, degree |-> degree,
                   coefficients |-> fit.coefficients]
             ELSE best

RECURSIVE SweepOver(_, _, _, _, _)
\* The loop run over the degrees degs (ascending), fits[d] being degree d's fit.
SweepOver(best, degs, fits, n, method) ==
    IF degs = << >> THEN best
    ELSE SweepOver(SweepBody(best, Head(degs), fits[Head(degs)], n, method),
                   Tail(degs), fits, n, method)

\* The fits of all the candidate degrees of a point list.
FitsOf(points) == [d \in 1..MaxDegreeToTest(Len(points)) |-> Fit(points, d)]

\* The whole function.  status "insufficient" and "nomodel" are its two throws.
FindBestFitPolynomial(points, method) ==
    LET n == Len(points)
        best == SweepOver(NoBest, [d \in 1..MaxDegreeToTest(n) |-> d],
                          FitsOf(points), n, method)
    IN  IF MaxDegreeToTest(n) < 1
        THEN [status |-> "insufficient", bestDegree |-> -1, coefficients |-> << >>]
        ELSE IF best.degree = -1
        THEN [status |-> "nomodel", bestDegree |-> -1, coefficients |-> << >>]
        ELSE [status |-> "ok", bestDegree |-> best.degree,
              coefficients |-> best.coefficients]

(***************************************************************************)
(* handleTrain: the input text, its parsing, and the body of the request.   *)
(*                                                                         *)
(* The text is a sequence of lines (data.trim().split('\n')), a line a      *)
(* sequence of comma-separated fields, a field <<"num", v>> (the decimal    *)
(* text of the integer v), <<"numtext", v>> (that text followed by          *)
(* letters, as in "2abc") or <<"text", 0>> (text without a numeric prefix). *)
(***************************************************************************)
\* parseFloat(s.trim()): the longest numeric prefix, NaN if there is none.
ParseFloat(field) ==
    IF field[1] \in {"num", "numtext"} THEN Rat(field[2]) ELSE NaN

\* const [x, y] = line.split(',').map(...): a missing field is undefined,
\* and isNaN(undefined) is true.
ParseLine(line) ==
    [x |-> IF Len(line) >= 1 THEN ParseFloat(line[1]) ELSE NaN,
     y |-> IF Len(line) >= 2 THEN ParseFloat(line[2]) ELSE NaN]

\* if (isNaN(x) || isNaN(y)) throw
LineRejected(line) == IsNaN(ParseLine(line).x) \/ IsNaN(ParseLine(line).y)

\* parsedPoints, or the thrown validation error.
ParseData(data) ==
    IF \E i \in 1..Len(data) : LineRejected(data[i])
    THEN [ok |-> FALSE, points |-> << >>]
    ELSE [ok |-> TRUE, points |-> [i \in 1..Len(data) |-> ParseLine(data[i])]]

\* The messages; the state error is << >> (null) or << message >>.
ErrInvalidFormat == [msg |-> "Invalid data format. Each line must be \"x,y\".", degree |-> 0]

ErrAutoNeedsTwo == [msg |-> "Please provide at least 2 data points for auto mode.", degree |-> 0]

ErrNeedsMorePoints(d) ==
    [msg |-> "Please provide at least ${selectedDegree + 1} data points for a degree ${selectedDegree} polynomial.",
     degree |-> d]

ErrSingular == [msg |-> "Matrix is singular. Cannot solve. Try a lower polynomial degree or different data.", degree |-> 0]

ErrNotEnough == [msg |-> "Not enough data points to find a best-fit polynomial (requires at least 2).", degree |-> 0]

ErrNoModel == [msg |-> "Could not determine a best-fit model for the given data.", degree |-> 0]

\* if (parsedPoints.length < 2)
TooFewForAuto(parsedPoints) == Len(parsedPoints) < 2

\* Mutant: the point count compared with the degree, not with degree + 1.
TooFewForDegree_OffByOne(parsedPoints, selectedDegree) ==
    Len(parsedPoints) < selectedDegree

\* if (parsedPoints.length < selectedDegree + 1)
TooFewForDegree(parsedPoints, selectedDegree) ==
    Len(parsedPoints) < selectedDegree + 1

\* Mutant: the view is switched although the request failed.
Failed_ShowsPrediction(st, message, calls) ==
    [st EXCEPT !.error = << message >>, !.view = "prediction", !.fitCalls = calls]

\* catch (e) { setError(e.message) }: nothing else of the state is set.
Failed(st, message, calls) ==
    [st EXCEPT !.error = << message >>, !.fitCalls = calls]

\* Mutant: setDegree(finalDegree) left out.
Succeeded_KeepsDegree(st, parsedPoints, finalDegree, calculatedCoefficients, calls) ==
    [st EXCEPT !.points = parsedPoints,
               !.coefficients = calculatedCoefficients,
               !.view = "prediction",
               !.fitCalls = calls]

\* setPoints(parsedPoints); setDegree(finalDegree);
\* setCoefficients(calculatedCoefficients); setView('prediction')
Succeeded(st, parsedPoints, finalDegree, calculatedCoefficients, calls) ==
    [st EXCEPT !.points = parsedPoints,
               !.degree = finalDegree,
               !.coefficients = calculatedCoefficients,
               !.view = "prediction",
               !.fitCalls = calls]

\* The try block of handleTrain on the state st.  fitCalls counts the calls
\* of calculatePolynomialRegression the request made (the sweep makes one
\* per candidate degree).
HandleTrainBody(st, req) ==
    LET parsed == ParseData(req.data)
        parsedPoints == parsed.points
    IN  IF ~parsed.ok THEN Failed(st, ErrInvalidFormat, 0)
        ELSE IF req.isAuto
        THEN IF TooFewForAuto(parsedPoints) THEN Failed(st, ErrAutoNeedsTwo, 0)
             ELSE LET result == FindBestFitPolynomial(parsedPoints, req.autoFitMethod)
                      calls == IF result.status = "insufficient" THEN 0
                               ELSE MaxDegreeToTest(Len(parsedPoints))
                  IN  IF result.status = "insufficient" THEN Failed(st, ErrNotEnough, calls)
                      ELSE IF result.status = "nomodel" THEN Failed(st, ErrNoModel, calls)
                      ELSE Succeeded([st EXCEPT !.autoFitMethodResult = req.autoFitMethod],
                                     parsedPoints, result.bestDegree,
                                     result.coefficients, calls)
        ELSE IF TooFewForDegree(parsedPoints, req.selectedDegree)
             THEN Failed(st, ErrNeedsMorePoints(req.selectedDegree), 0)
             ELSE LET r == CalculatePolynomialRegression(parsedPoints, req.selectedDegree)
                  IN  IF ~r.ok THEN Failed(st, ErrSingular, 1)
                      ELSE Succeeded(st, parsedPoints, req.selectedDegree,
                                     r.coefficients, 1)

(***************************************************************************)
(* PrettyFormula.  What it renders is a record [literal, parts]: the text   *)
(* of the leading element and the sequence of the elements pushed to parts, *)
(* each a token [kind, power, text, value] (power is the power of the key   *)
(* the element is given).                                                  *)
(***************************************************************************)
\* 1e-9 is 1 / NanoInv.
NanoInv == 10 ^ 9

\* q < 1e-9
BelowNano(q) ==
    \/ q = NegInfinity
    \/ /\ IsFinite(q)
       /\ q[1] <= (q[2] - 1) \div NanoInv

\* q > 1e-9
AboveNano(q) ==
    \/ q = Infinity
    \/ /\ IsFinite(q)
       /\ q[1] > q[2] \div NanoInv

RECURSIVE Scaled(_, _)
\* q * 10^e for an integer e
Scaled(q, e) ==
    IF e = 0 THEN q
    ELSE IF e > 0 THEN Scaled(RMul(q, Rat(10)), e - 1)
    ELSE Scaled(RDiv(q, Rat(10)), e + 1)

\* The integer nearest to q >= 0, halves upward.
Nearest(q) == (q[1] \div q[2]) + (IF q[1] % q[2] >= q[2] - (q[1] % q[2]) THEN 1 ELSE 0)

\* q < k and q > k for a finite q and an integer k, by integer division.
BelowInt(q, k) == q[1] \div q[2] < k

AboveInt(q, k) == q[1] \div q[2] > k \/ (q[1] \div q[2] = k /\ q[1] % q[2] > 0)

RECURSIVE RoundedFrom(_, _)
\* q * 10^e rounded to three significant digits, for q > 0.
RoundedFrom(q, e) ==
    IF BelowInt(q, 100) THEN RoundedFrom(RMul(q, Rat(10)), e - 1)
    ELSE IF ~BelowInt(q, 1000) THEN RoundedFrom(RDiv(q, Rat(10)), e + 1)
    ELSE Scaled(Rat(Nearest(q)), e)

\* toPrecision(3) and toExponential(2): three significant digits.
ThreeDigits(q) ==
    IF ~IsFinite(q) \/ q[1] = 0 THEN q ELSE RoundedFrom(q, 0)

\* absCoeff > 1000 ? absCoeff.toExponential(2) : Number(absCoeff.toPrecision(3))
FormattedCoeff(absCoeff) ==
    [text |-> IF absCoeff = Infinity \/ (IsFinite(absCoeff) /\ AboveInt(absCoeff, 1000))
              THEN "exponential" ELSE "number",
     value |-> ThreeDigits(absCoeff)]

SignToken(power, sign) == [kind |-> "sign", power |-> power, text |-> sign, value |-> Rat(0)]

CoeffToken(power, absCoeff) ==
    [kind |-> "coeff", power |-> power,
     text |-> FormattedCoeff(absCoeff).text, value |-> FormattedCoeff(absCoeff).value]

XToken(power) == [kind |-> "x", power |-> power, text |-> "x", value |-> Rat(0)]

SupToken(power) == [kind |-> "sup", power |-> power, text |-> "sup", value |-> Rat(power)]

\* <span>0</span>
ZeroToken == [kind |-> "zero", power |-> 0, text |-> "0", value |-> Rat(0)]

\* Mutant: the first term's sign is handled like the others'.
SignOf_AlwaysShown(coeff, power, isFirstTerm) ==
    << SignToken(power, IF RLess(Rat(0), coeff) THEN "+" ELSE "-") >>

\* 1. Determine the sign
SignOf(coeff, power, isFirstTerm) ==
    IF ~isFirstTerm
    THEN << SignToken(power, IF RLess(Rat(0), coeff) THEN "+" ELSE "-") >>
    ELSE IF RLess(coeff, Rat(0)) THEN << SignToken(power, "-") >>
    ELSE << >>

\* const showCoeff = Math.abs(absCoeff - 1) > 1e-9 || power === 0
ShowCoeff(absCoeff, power) ==
    AboveNano(RAbs(RSub(absCoeff, Rat(1)))) \/ power = 0

\* 2. the coefficient's numeric value; 3. the variable 'x' and its exponent
TermOf(coeff, power, isFirstTerm) ==
    SignOf(coeff, power, isFirstTerm)
        \o (IF ShowCoeff(RAbs(coeff), power) THEN << CoeffToken(power, RAbs(coeff)) >> ELSE << >>)
        \o (IF power > 0 THEN << XToken(power) >> ELSE << >>)
        \o (IF power > 1 THEN << SupToken(power) >> ELSE << >>)

\* Mutant: terms up to 1e-9 inclusive are skipped.
SkipTerm_Inclusive(coeff) == ~AboveNano(RAbs(coeff))

\* if (Math.abs(coeff) < 1e-9) return
SkipTerm(coeff) == BelowNano(RAbs(coeff))

RECURSIVE PartsFrom(_, _, _)
\* reversedCoefficients.forEach((coeff, index) => ...), from index on;
\* reversedCoefficients[index] is coefficients[highestPower - index].
PartsFrom(coeffs, index, parts) ==
    IF index > Len(coeffs) - 1 THEN parts
    ELSE LET power == (Len(coeffs) - 1) - index
             coeff == coeffs[power + 1]
         IN  PartsFrom(coeffs, index + 1,
                 IF SkipTerm(coeff) THEN parts
                 ELSE parts \o TermOf(coeff, power, Len(parts) = 0))

\* The three returns of the component.
PrettyFormula(coeffs) ==
    IF Len(coeffs) = 0 THEN [literal |-> "f(x) = 0", parts |-> << >>]
    ELSE LET parts == PartsFrom(coeffs, 0, << >>)
         IN  IF Len(parts) = 0 THEN [literal |-> "f(x) =", parts |-> << ZeroToken >>]
             ELSE [literal |-> "f(x) =", parts |-> parts]

(***************************************************************************)
(* State.                                                                  *)
(***************************************************************************)
VARIABLES
    matrixA, vectorB,   \* solveLinearSystem: the caller's arguments
    m,                  \* solveLinearSystem: the private augmented matrix
    col,                \* solveLinearSystem: the outer loop's i (1-based)
    solverPc,           \* "loop" | "returned" | "thrown"
    solution,           \* the returned vector
    regPoints,          \* calculatePolynomialRegression: points
    regDegree,          \* calculatePolynomialRegression: degree
    regPc,              \* "none" (solver called directly) | "solving" | "returned" | "thrown"
    regCoefficients,    \* the returned coefficients
    selPoints,          \* findBestFitPolynomial: points
    numPoints,          \* findBestFitPolynomial: n
    method,             \* findBestFitPolynomial: method
    fits,               \* what the try block obtains at each candidate degree
    sweepDegree,        \* findBestFitPolynomial: the loop's degree
    bestScore, bestDegree, bestCoefficients,
    sweepPc,            \* "idle" | "entry" | "loop" | "returned" | "insufficient" | "nomodel"
    attempted,          \* the degrees whose try block has run
    sweepResult,        \* << >>, or << the returned object >>
    view, points, coefficients, degree, isLoading, error, isAutoResult,
    autoFitMethodResult,    \* App: the component's state
    request,            \* << >>, or << the arguments of the handleTrain in flight >>
    fitCalls,           \* calls of calculatePolynomialRegression by the last request
    xValue,             \* Prediction: the text of the x input
    predictedY,         \* Prediction: << >> (null), or << the number >>
    formula             \* PrettyFormula: << >>, or << what it rendered >>

solverVars == << matrixA, vectorB, m, col, solverPc, solution >>

regVars == << regPoints, regDegree, regPc, regCoefficients >>

sweepVars == << selPoints, numPoints, method, fits, sweepDegree, bestScore,
                bestDegree, bestCoefficients, sweepPc, attempted, sweepResult >>

appVars == << view, points, coefficients, degree, isLoading, error, isAutoResult,
              autoFitMethodResult, request, fitCalls >>

predVars == << xValue, predictedY >>

vars == << solverVars, regVars, sweepVars, appVars, predVars, formula >>

\* No call of solveLinearSystem or calculatePolynomialRegression is modelled.
SolverIdle ==
    /\ matrixA = << >> /\ vectorB = << >> /\ m = << >> /\ col = 0
    /\ solverPc = "idle" /\ solution = << >>
    /\ regPoints = << >> /\ regDegree = 0 /\ regPc = "none" /\ regCoefficients = << >>

\* No call of findBestFitPolynomial is modelled.
SweepIdle ==
    /\ selPoints = << >> /\ numPoints = 0 /\ method = "BIC" /\ fits = << >>
    /\ sweepDegree = 0 /\ bestScore = Infinity /\ bestDegree = -1
    /\ bestCoefficients = << >> /\ sweepPc = "idle" /\ attempted = {}
    /\ sweepResult = << >>

\* No App component is modelled.
AppIdle ==
    /\ view = "input" /\ points = << >> /\ coefficients = << >> /\ degree = 2
    /\ isLoading = FALSE /\ error = << >> /\ isAutoResult = FALSE
    /\ autoFitMethodResult = "BIC" /\ request = << >> /\ fitCalls = 0

\* The empty text of an input element.
Empty == << "empty", 0 >>

\* The Prediction component as mounted: useState(''), useState(null).
PredictionMounted == xValue = Empty /\ predictedY = << >>

\* PrettyFormula has rendered nothing.
FormulaIdle == formula = << >>

(***************************************************************************)
(* Inputs.                                                                 *)
(***************************************************************************)
MaxDim == 2
MaxRegPoints == 3
MaxRegDegree == 2
Entries == {-2, 0, 1}
Rhs == {0, 1}
XValues == {0, 1, 2}
YValues == {0, 1}

SquareMatrices ==
    UNION {[1..n -> [1..n -> {Rat(e) : e \in Entries}]] : n \in 1..MaxDim}

Points == {[x |-> Rat(a), y |-> Rat(b)] : a \in XValues, b \in YValues}

PointLists(maxLen) == UNION {[1..n -> Points] : n \in 0..maxLen}

(***************************************************************************)
(* solveLinearSystem run one pivot column at a time, called directly on a   *)
(* bounded integer system or by calculatePolynomialRegression on the normal *)
(* equations of bounded points.                                            *)
(***************************************************************************)
SolverStarts(A, b) ==
    /\ matrixA = A
    /\ vectorB = b
    /\ m = Augmented(A, b)
    /\ col = 1
    /\ solverPc = "loop"
    /\ solution = << >>

InitSolveCall ==
    \/ /\ regPc = "none"
       /\ regPoints = << >>
       /\ regDegree = 0
       /\ regCoefficients = << >>
       /\ \E A \in SquareMatrices :
             \E b \in [1..Len(A) -> {Rat(e) : e \in Rhs}] : SolverStarts(A, b)
    \/ /\ regPc = "solving"
       /\ regPoints \in PointLists(MaxRegPoints) \ {<< >>}
       /\ regDegree \in 1..MaxRegDegree
       /\ regCoefficients = << >>
       /\ SolverStarts(Gram(regPoints, regDegree), Moments(regPoints, regDegree))

InitSolve ==
    /\ SweepIdle
    /\ AppIdle
    /\ PredictionMounted
    /\ FormulaIdle
    /\ InitSolveCall

SolveThrow ==
    /\ solverPc = "loop"
    /\ col <= Len(m)
    /\ SingularPivot(Pivoted(m, col), col)
    /\ m' = Pivoted(m, col)
    /\ solverPc' = "thrown"
    /\ UNCHANGED << matrixA, vectorB, col, solution, regVars, sweepVars, appVars, predVars, formula >>

SolveStep ==
    /\ solverPc = "loop"
    /\ col <= Len(m)
    /\ ~SingularPivot(Pivoted(m, col), col)
    /\ m' = Reduced(m, col)
    /\ col' = col + 1
    /\ UNCHANGED << matrixA, vectorB, solverPc, solution, regVars, sweepVars, appVars, predVars, formula >>

SolveReturn ==
    /\ solverPc = "loop"
    /\ col > Len(m)
    /\ solution' = ReadSolution(m)
    /\ solverPc' = "returned"
    /\ UNCHANGED << matrixA, vectorB, m, col, regVars, sweepVars, appVars, predVars, formula >>

\* const coefficients = solveLinearSystem(XtX, XtY); return coefficients;
RegressionEnds ==
    /\ regPc = "solving"
    /\ solverPc \in {"returned", "thrown"}
    /\ LET r == Propagated([ok |-> solverPc = "returned", solution |-> solution])
       IN  /\ regPc' = IF r.ok THEN "returned" ELSE "thrown"
           /\ regCoefficients' = r.coefficients
    /\ UNCHANGED << solverVars, regPoints, regDegree, sweepVars, appVars, predVars, formula >>

NextSolve == SolveThrow \/ SolveStep \/ SolveReturn \/ RegressionEnds

SpecSolve == InitSolve /\ [][NextSolve]_vars

(***************************************************************************)
(* Reference notions for the solver's claims.                               *)
(***************************************************************************)
\* (A x)[i]
MatVec(A, x) == [i \in 1..Len(A) |-> RSum([j \in 1..Len(A) |-> RMul(A[i][j], x[j])])]

Minor(A, j) ==
    [r \in 1..Len(A) - 1 |-> [c \in 1..Len(A) - 1 |-> A[r + 1][IF c < j THEN c ELSE c + 1]]]

RECURSIVE Det(_)
\* Laplace expansion along the first row.
Det(A) ==
    IF Len(A) = 1 THEN A[1][1]
    ELSE RSum([j \in 1..Len(A) |->
            RMul(IF j % 2 = 1 THEN A[1][j] ELSE RNeg(A[1][j]), Det(Minor(A, j)))])

\* Column j of m is the j-th unit vector.
UnitColumn(mat, j) ==
    \A k \in 1..Len(mat) : mat[k][j] = IF k = j THEN Rat(1) ELSE Rat(0)

\* Every candidate pivot of column i (rows i..n) is below the tolerance.
ColumnBelowTol(mat, i) == \A k \in i..Len(mat) : AbsBelowTol(mat[k][i])

(* C9: whenever solveLinearSystem returns, the returned vector has length n
   and satisfies A x = b for the caller's A and b; while it runs, every pivot
   column already processed is a unit column of the augmented matrix (full
   reduction), so the solution is exactly the augmented column read off at the
   end, with no back-substitution. *)
C9_SolveReturnsSolution ==
    /\ solverPc \in {"loop", "returned"} => \A j \in 1..col - 1 : UnitColumn(m, j)
    /\ solverPc = "returned" =>
          /\ Len(solution) = Len(matrixA)
          /\ solution = ReadSolution(m)
          /\ MatVec(matrixA, solution) = vectorB

\* A 2 x 2 system whose first pivot needed a row swap, solved to a non-zero x.
C9_Witness ==
    /\ solverPc = "returned"
    /\ regPc = "none"
    /\ Len(matrixA) = 2
    /\ matrixA[1][1] = Rat(0)
    /\ matrixA[2][2] # Rat(0)
    /\ solution[1] # Rat(0)
    /\ solution[2] # Rat(0)

(* C10: solveLinearSystem throws, and returns no solution vector, whenever at
   some pivot column every candidate pivot (rows i..n-1 of column i) is below
   1e-10 in absolute value; it never returns for an exactly singular matrix
   (determinant 0); and calculatePolynomialRegression ends with that error,
   returning no coefficients, exactly when its solver call threw. *)
C10_SingularThrows ==
    /\ [][(solverPc = "loop" /\ col <= Len(m) /\ ColumnBelowTol(m, col))
            => (solverPc' = "thrown" /\ solution' = << >>)]_vars
    /\ [](solverPc = "returned" => Det(matrixA) # Rat(0))
    /\ [](solverPc = "thrown" => solution = << >>)
    /\ [](regPc = "returned" => solverPc = "returned" /\ regCoefficients = solution)
    /\ [](regPc = "thrown" => solverPc = "thrown" /\ regCoefficients = << >>)

\* A regression whose normal equations turned out singular at the second
\* pivot column, the error having reached the regression's caller.
C10_Witness ==
    /\ regPc = "thrown"
    /\ solverPc = "thrown"
    /\ col = 2
    /\ Len(regPoints) = 2

(***************************************************************************)
(* findBestFitPolynomial run one candidate degree at a time.                *)
(*                                                                         *)
(* SpecSelect calls it on bounded point lists, the fits being computed in   *)
(* exact arithmetic.  SpecSweep leaves the points out and draws each        *)
(* degree's fit (the regression failed, or an integer residual sum of       *)
(* squares, 0 standing for a near-perfect fit) as an input: on doubles,     *)
(* ill-conditioned normal equations can fail or fit badly at any degree.    *)
(***************************************************************************)
MaxSelPoints == 3
MaxSweepPoints == 4
MaxRss == 2

Methods == {"AIC", "BIC"}

\* An input fit of SpecSweep: o < 0 is a failed regression, o >= 0 the
\* residual sum of squares.  Only the length of the coefficient vector
\* matters to the sweep; its entries carry the degree.
AbstractFit(d, o) ==
    [ok |-> o >= 0,
     coefficients |-> IF o >= 0 THEN [i \in 1..d + 1 |-> Rat(d)] ELSE << >>,
     rss |-> IF o >= 0 THEN Rat(o) ELSE NaN]

SweepStarts ==
    /\ sweepDegree = 1
    /\ bestScore = NoBest.score
    /\ bestDegree = NoBest.degree
    /\ bestCoefficients = NoBest.coefficients
    /\ sweepPc = "entry"
    /\ attempted = {}
    /\ sweepResult = << >>

InitSelect ==
    /\ SolverIdle
    /\ AppIdle
    /\ PredictionMounted
    /\ FormulaIdle
    /\ selPoints \in PointLists(MaxSelPoints)
    /\ numPoints = Len(selPoints)
    /\ method \in Methods
    /\ fits = FitsOf(selPoints)
    /\ SweepStarts

InitSweep ==
    /\ SolverIdle
    /\ AppIdle
    /\ PredictionMounted
    /\ FormulaIdle
    /\ selPoints = << >>
    /\ numPoints \in 0..MaxSweepPoints
    /\ method \in Methods
    /\ \E o \in [1..MaxDegreeToTest(numPoints) -> -1..MaxRss] :
          fits = [d \in 1..MaxDegreeToTest(numPoints) |-> AbstractFit(d, o[d])]
    /\ SweepStarts

Best == [score |-> bestScore, degree |-> bestDegree, coefficients |-> bestCoefficients]

\* if (maxDegreeToTest < 1) throw
SweepInsufficient ==
    /\ sweepPc = "entry"
    /\ MaxDegreeToTest(numPoints) < 1
    /\ sweepPc' = "insufficient"
    /\ UNCHANGED << solverVars, regVars, appVars, predVars, formula, selPoints, numPoints, method, fits,
                    sweepDegree, bestScore, bestDegree, bestCoefficients,
                    attempted, sweepResult >>

SweepBegin ==
    /\ sweepPc = "entry"
    /\ ~(MaxDegreeToTest(numPoints) < 1)
    /\ sweepPc' = "loop"
    /\ UNCHANGED << solverVars, regVars, appVars, predVars, formula, selPoints, numPoints, method, fits,
                    sweepDegree, bestScore, bestDegree, bestCoefficients,
                    attempted, sweepResult >>

\* One iteration of for (degree = 1; degree <= maxDegreeToTest; degree++).
SweepIteration ==
    /\ sweepPc = "loop"
    /\ sweepDegree <= MaxDegreeToTest(numPoints)
    /\ LET b == SweepBody(Best, sweepDegree, fits[sweepDegree], numPoints, method)
       IN  /\ bestScore' = b.score
           /\ bestDegree' = b.degree
           /\ bestCoefficients' = b.coefficients
    /\ attempted' = attempted \cup {sweepDegree}
    /\ sweepDegree' = sweepDegree + 1
    /\ UNCHANGED << solverVars, regVars, appVars, predVars, formula, selPoints, numPoints, method, fits,
                    sweepPc, sweepResult >>

\* Mutant: no try/catch, the regression's error leaves the function.
SweepSkip_Rethrows ==
    /\ sweepPc = "loop"
    /\ sweepDegree <= MaxDegreeToTest(numPoints)
    /\ ~fits[sweepDegree].ok
    /\ sweepPc' = "thrown"
    /\ attempted' = attempted \cup {sweepDegree}
    /\ UNCHANGED << solverVars, regVars, appVars, predVars, formula, selPoints, numPoints, method, fits,
                    sweepDegree, bestScore, bestDegree, bestCoefficients,
                    sweepResult >>

\* catch (error) { console.warn(...) }: the regression failed at this degree.
SweepSkip ==
    /\ sweepPc = "loop"
    /\ sweepDegree <= MaxDegreeToTest(numPoints)
    /\ ~fits[sweepDegree].ok
    /\ SweepIteration

\* if (rss <= 1e-10) { if (bestDegree === -1) {...} continue; }
SweepPerfect ==
    /\ sweepPc = "loop"
    /\ sweepDegree <= MaxDegreeToTest(numPoints)
    /\ fits[sweepDegree].ok
    /\ AtMostTol(fits[sweepDegree].rss)
    /\ SweepIteration

\* if (score < bestScore) {...}
SweepScored ==
    /\ sweepPc = "loop"
    /\ sweepDegree <= MaxDegreeToTest(numPoints)
    /\ fits[sweepDegree].ok
    /\ ~AtMostTol(fits[sweepDegree].rss)
    /\ SweepIteration

\* if (bestDegree === -1) throw
SweepNoModel ==
    /\ sweepPc = "loop"
    /\ sweepDegree > MaxDegreeToTest(numPoints)
    /\ bestDegree = -1
    /\ sweepPc' = "nomodel"
    /\ UNCHANGED << solverVars, regVars, appVars, predVars, formula, selPoints, numPoints, method, fits,
                    sweepDegree, bestScore, bestDegree, bestCoefficients,
                    attempted, sweepResult >>

\* Mutant: the bestDegree === -1 check left out.
SweepReturn_Unchecked ==
    /\ sweepPc = "loop"
    /\ sweepDegree > MaxDegreeToTest(numPoints)
    /\ sweepPc' = "returned"
    /\ sweepResult' = << [bestDegree |-> bestDegree, coefficients |-> bestCoefficients] >>
    /\ UNCHANGED << solverVars, regVars, appVars, predVars, formula, selPoints, numPoints, method, fits,
                    sweepDegree, bestScore, bestDegree, bestCoefficients,
                    attempted >>

\* return { bestDegree, coefficients: bestCoefficients }
SweepReturn ==
    /\ sweepPc = "loop"
    /\ sweepDegree > MaxDegreeToTest(numPoints)
    /\ bestDegree # -1
    /\ sweepPc' = "returned"
    /\ sweepResult' = << [bestDegree |-> bestDegree, coefficients |-> bestCoefficients] >>
    /\ UNCHANGED << solverVars, regVars, appVars, predVars, formula, selPoints, numPoints, method, fits,
                    sweepDegree, bestScore, bestDegree, bestCoefficients,
                    attempted >>

NextSweep ==
    \/ SweepInsufficient
    \/ SweepBegin
    \/ SweepSkip
    \/ SweepPerfect
    \/ SweepScored
    \/ SweepNoModel
    \/ SweepReturn

SpecSelect == InitSelect /\ [][NextSweep]_vars

SpecSweep == InitSweep /\ [][NextSweep]_vars

(***************************************************************************)
(* Reference notions for the sweep's claims.                                *)
(***************************************************************************)
Candidates == 1..MaxDegreeToTest(numPoints)

\* The candidate degrees whose regression did not fail.
Fitted == {d \in Candidates : fits[d].ok}

\* The candidate degrees with a near-perfect fit.
NearPerfect == {d \in Fitted : AtMostTol(fits[d].rss)}

\* The score the selection criterion gives degree d: -Infinity for a
\* near-perfect fit, the information criterion otherwise.
CriterionScore(d) ==
    IF AtMostTol(fits[d].rss) THEN NegInfinity
    ELSE Score(fits[d].rss, numPoints, d, method)

Least(S) == CHOOSE d \in S : \A e \in S : d <= e

\* The degrees of S in ascending order.
Ascending(S) ==
    LET RECURSIVE Asc(_)
        Asc(T) == IF T = {} THEN << >> ELSE << Least(T) >> \o Asc(T \ {Least(T)})
    IN  Asc(S)

(* C1: whenever findBestFitPolynomial returns, no candidate degree whose
   regression did not fail has a strictly smaller criterion score (-Infinity
   for RSS <= 1e-10, the AIC or BIC score otherwise) than the returned
   degree. *)
C1_ReturnsMinimalScore ==
    sweepPc = "returned" =>
        \A d \in Fitted :
            ~RLess(CriterionScore(d), CriterionScore(sweepResult[1].bestDegree))

(* C2: whenever findBestFitPolynomial returns and some candidate degree has a
   near-perfect fit (RSS <= 1e-10), the returned degree is the lowest such
   degree. *)
C2_FirstNearPerfectWins ==
    (sweepPc = "returned" /\ NearPerfect # {}) =>
        sweepResult[1].bestDegree = Least(NearPerfect)

(* C3: a failed regression does not end the sweep: the function ends only by
   returning or by its own two errors, every candidate degree has been
   attempted by then, a failed degree is never the returned one, and the
   outcome (best score, degree and coefficients, and whether a model was
   found) is that of the same loop run over the non-failed degrees alone. *)
C3_FailedDegreeSkipped ==
    /\ sweepPc \in {"entry", "loop", "insufficient", "nomodel", "returned"}
    /\ sweepPc = "loop" => attempted = 1..sweepDegree - 1
    /\ sweepPc \in {"nomodel", "returned"} =>
          /\ attempted = Candidates
          /\ LET ref == SweepOver(NoBest, Ascending(Fitted), fits, numPoints, method)
             IN  /\ Best = ref
                 /\ (sweepPc = "returned") = (ref.degree # -1)
    /\ sweepPc = "returned" => sweepResult[1].bestDegree \in Fitted

\* A sweep that returned a degree above one whose regression had failed.
C3_Witness ==
    /\ sweepPc = "returned"
    /\ \E d \in Candidates \ Fitted : d < sweepResult[1].bestDegree

(* C4: if every candidate degree was skipped the function ends with the
   no-model error and returns nothing; whenever it returns, the returned
   degree is a candidate degree whose regression did not fail and the returned
   coefficients are those calculatePolynomialRegression gives for it. *)
C4_NoModelOrFittedDegree ==
    /\ (sweepPc \in {"nomodel", "returned"} /\ Fitted = {}) => sweepPc = "nomodel"
    /\ sweepPc = "nomodel" => sweepResult = << >>
    /\ sweepPc = "returned" =>
          /\ Len(sweepResult) = 1
          /\ sweepResult[1].bestDegree \in Fitted
          /\ sweepResult[1].coefficients =
                CalculatePolynomialRegression(selPoints, sweepResult[1].bestDegree).coefficients

\* Three points sharing one x: both candidate degrees were skipped.
C4_Witness ==
    /\ sweepPc = "nomodel"
    /\ numPoints = 3
    /\ attempted = {1, 2}

\* The degrees with RSS > 1e-10 whose score is minimal among all the
\* non-skipped candidates.
TiedAtMinimum ==
    {d \in Fitted \ NearPerfect :
        \A e \in Fitted : ~RLess(CriterionScore(e), CriterionScore(d))}

(* C5: whenever findBestFitPolynomial returns and two or more non-skipped
   candidate degrees with RSS > 1e-10 share the minimal score, the returned
   degree is the lowest of them. *)
C5_TieLowestDegree ==
    (sweepPc = "returned" /\ Cardinality(TiedAtMinimum) >= 2) =>
        sweepResult[1].bestDegree = Least(TiedAtMinimum)

\* A returned sweep with two degrees tied at the minimal score.
C5_Witness ==
    /\ sweepPc = "returned"
    /\ Cardinality(TiedAtMinimum) >= 2

(***************************************************************************)
(* The App component: train requests from the input view and resets from    *)
(* the prediction view.  The DataInput form is shown only in the input      *)
(* view and its submit button is disabled while isLoading, so a request     *)
(* starts only from an idle input view; between its two steps (before and   *)
(* after the awaited timeout) nothing else can run.                         *)
(***************************************************************************)
MaxLines == 3
MaxSelectedDegree == 3
SliderMin == 1
SliderMax == 20

Num(v) == << "num", v >>

NumText(v) == << "numtext", v >>

Text == << "text", 0 >>

\* One line for every point of Points: "<x>,<y>" lines, and lines with
\* letters after x ("2abc,0"), letters after y ("0,1abc") or a third field
\* ("1,1,5").
NumericLines ==
    {<< Num(0), Num(0) >>, << Num(1), Num(0) >>, << Num(2), Num(1) >>,
     << NumText(2), Num(0) >>, << Num(0), NumText(1) >>,
     << Num(1), Num(1), Num(5) >>}

\* The lines above, a line whose x has no numeric prefix, and a line
\* without y.
Lines == NumericLines \cup {<< Text, Num(0) >>, << Num(0) >>}

\* The text of the textarea: handleSubmit returns on blank text.
Texts == UNION {[1..n -> Lines] : n \in 1..MaxLines}

\* The degree slider's values.
SelectableDegrees == SliderMin..Min(SliderMax, MaxSelectedDegree)

\* onTrain(data, degree, isAuto, autoFitMethod).  The degree is not read in
\* automatic mode and the method is not read in explicit mode: they are
\* held at the form's initial values there.
Requests ==
    {[data |-> t, selectedDegree |-> d, isAuto |-> FALSE, autoFitMethod |-> "AIC"] :
        t \in Texts, d \in SelectableDegrees}
    \cup
    {[data |-> t, selectedDegree |-> 2, isAuto |-> TRUE, autoFitMethod |-> mth] :
        t \in Texts, mth \in Methods}

AppState ==
    [view |-> view, points |-> points, coefficients |-> coefficients,
     degree |-> degree, error |-> error,
     autoFitMethodResult |-> autoFitMethodResult, fitCalls |-> fitCalls]

Init ==
    /\ SolverIdle
    /\ SweepIdle
    /\ AppIdle
    /\ PredictionMounted
    /\ FormulaIdle

\* handleTrain up to the await.
TrainStart ==
    /\ view = "input"
    /\ ~isLoading
    /\ \E req \in Requests :
          /\ request' = << req >>
          /\ isAutoResult' = req.isAuto
    /\ isLoading' = TRUE
    /\ error' = << >>
    /\ fitCalls' = 0
    /\ UNCHANGED << solverVars, regVars, sweepVars, predVars, formula, view, points, coefficients,
                    degree, autoFitMethodResult >>

\* handleTrain after the await: the try block left the state st; finally.
TrainFinish(st) ==
    /\ view' = st.view
    /\ points' = st.points
    /\ coefficients' = st.coefficients
    /\ degree' = st.degree
    /\ error' = st.error
    /\ autoFitMethodResult' = st.autoFitMethodResult
    /\ fitCalls' = st.fitCalls
    /\ isLoading' = FALSE
    /\ request' = << >>
    /\ UNCHANGED << solverVars, regVars, sweepVars, predVars, formula, isAutoResult >>

\* The request ended in the catch block.
TrainFails ==
    /\ request # << >>
    /\ \E st \in {HandleTrainBody(AppState, request[1])} :
          /\ st.error # << >>
          /\ TrainFinish(st)

\* The request ran to setView('prediction').
TrainSucceeds ==
    /\ request # << >>
    /\ \E st \in {HandleTrainBody(AppState, request[1])} :
          /\ st.error = << >>
          /\ TrainFinish(st)

\* handleReset, the Start Over button of the prediction view.
HandleReset ==
    /\ view = "prediction"
    /\ view' = "input"
    /\ points' = << >>
    /\ coefficients' = << >>
    /\ error' = << >>
    /\ degree' = 2
    /\ isAutoResult' = FALSE
    /\ UNCHANGED << solverVars, regVars, sweepVars, predVars, formula, isLoading,
                    autoFitMethodResult, request, fitCalls >>

Next == TrainStart \/ TrainFails \/ TrainSucceeds \/ HandleReset

Spec == Init /\ [][Next]_vars

(***************************************************************************)
(* Reference notions for the claims about the App component.                *)
(***************************************************************************)
\* Every line of the text has the form "<x>,<y>" with numeric x and y.
WellFormed(data) ==
    \A i \in 1..Len(data) :
        Len(data[i]) = 2 /\ data[i][1][1] = "num" /\ data[i][2][1] = "num"

\* Every line of the text starts with two fields that have a numeric
\* prefix: the texts that yield points.
YieldsPoints(data) ==
    \A i \in 1..Len(data) :
        /\ Len(data[i]) >= 2
        /\ data[i][1][1] \in {"num", "numtext"}
        /\ data[i][2][1] \in {"num", "numtext"}

\* The number of distinct abscissae of such a text: a polynomial of
\* degree d is determined by the normal equations iff there are d + 1 of them.
DistinctXs(data) == Cardinality({data[i][1][2] : i \in 1..Len(data)})

\* The request has too few points for its mode.
Insufficient(req) ==
    /\ YieldsPoints(req.data)
    /\ IF req.isAuto THEN Len(req.data) < 2
       ELSE Len(req.data) < req.selectedDegree + 1

\* The request fails: parse error, insufficient data, singular matrix in
\* explicit mode, no model found in automatic mode.
RequestFails(req) ==
    \/ ~YieldsPoints(req.data)
    \/ Insufficient(req)
    \/ ~req.isAuto /\ DistinctXs(req.data) < req.selectedDegree + 1
    \/ req.isAuto /\ DistinctXs(req.data) < 2

\* A step that finishes the request in flight.
Finishes == request # << >> /\ request' = << >>

\* The message an insufficient request is to be answered with.
InsufficientMessage(req) ==
    IF req.isAuto THEN ErrAutoNeedsTwo ELSE ErrNeedsMorePoints(req.selectedDegree)

(* C6: a train request with fewer than 2 points in automatic mode, or fewer *)
(* than degree + 1 points in explicit mode, finishes with the insufficient- *)
(* data message and without one call of calculatePolynomialRegression       *)
(* (fitCalls' = 0, the sweep included); and findBestFitPolynomial on fewer  *)
(* than 2 points throws "insufficient" with no degree fitted.               *)
C6_InsufficientBeforeRegression ==
    /\ [][(Finishes /\ Insufficient(request[1])) =>
             /\ error' = << InsufficientMessage(request[1]) >>
             /\ fitCalls' = 0
             /\ view' = "input"]_vars
    /\ \A pts \in PointLists(1) : \A mth \in Methods :
          /\ MaxDegreeToTest(Len(pts)) < 1
          /\ FitsOf(pts) = << >>
          /\ FindBestFitPolynomial(pts, mth).status = "insufficient"

\* An explicit request of degree 1 on a single point has been refused.
C6_Witness ==
    /\ request = << >>
    /\ error = << ErrNeedsMorePoints(1) >>
    /\ fitCalls = 0

(* C7: a step that finishes a failing train request leaves points,          *)
(* coefficients, degree and view as they were, sets error to a message and  *)
(* isLoading to false; the step that starts a request leaves the stored     *)
(* result untouched as well, so the values are those before the request.    *)
C7_NoPartialResults ==
    /\ [][(Finishes /\ RequestFails(request[1])) =>
             /\ points' = points
             /\ coefficients' = coefficients
             /\ degree' = degree
             /\ view' = view
             /\ error' # << >>
             /\ isLoading' = FALSE]_vars
    /\ [][(request = << >> /\ request' # << >>) =>
             /\ points' = points
             /\ coefficients' = coefficients
             /\ degree' = degree
             /\ view' = view]_vars

\* A request has failed in the regression itself, after fitting was tried.
C7_Witness ==
    /\ request = << >>
    /\ ~isLoading
    /\ error \in {<< ErrSingular >>, << ErrNoModel >>}
    /\ fitCalls > 0

(* C8: in every reachable state that shows a fit result, coefficients has   *)
(* degree + 1 entries, 1 <= degree <= min(20, number of points - 1), and    *)
(* the coefficients are the regression of that degree on those points.      *)
C8_ShownResultConsistent ==
    view = "prediction" =>
        /\ Len(coefficients) = degree + 1
        /\ 1 <= degree
        /\ degree <= Min(20, Len(points) - 1)
        /\ LET r == CalculatePolynomialRegression(points, degree)
           IN  r.ok /\ r.coefficients = coefficients

\* An automatic request has chosen a degree other than the initial 2.
C8_Witness ==
    /\ view = "prediction"
    /\ isAutoResult
    /\ degree = 1
    /\ Len(points) = 3

(* C11: a step that finishes a train request whose text has a line not of  *)
(* the form "<x>,<y>" with numeric x and y sets the validation error         *)
(* 'Invalid data format. Each line must be "x,y".', makes no call of         *)
(* calculatePolynomialRegression (fitCalls' = 0, the sweep included) and     *)
(* stays in the input view.                                                  *)
C11_ParserRejectsNonNumeric ==
    [][(Finishes /\ ~WellFormed(request[1].data)) =>
          /\ error' = << ErrInvalidFormat >>
          /\ fitCalls' = 0
          /\ view' = "input"]_vars

(***************************************************************************)
(* The Prediction component, mounted by App in the prediction view on the   *)
(* coefficients of a successful fit: the x input (type="number", so its     *)
(* text is empty or a number) and the Predict button.                       *)
(***************************************************************************)
\* The numbers typed into the x input; the square of the last one is beyond
\* the largest finite magnitude.
XQueries == {0, 2, 1000}

XTexts == {Empty} \cup {Num(v) : v \in XQueries}

\* discoveredFunc of App
DiscoveredFunc(x) ==
    IF Len(coefficients) = 0 THEN NaN ELSE EvaluatePolynomial(coefficients, x)

\* App after a successful explicit request, Prediction just mounted.
InitPredict ==
    /\ SolverIdle
    /\ SweepIdle
    /\ FormulaIdle
    /\ PredictionMounted
    /\ view = "prediction"
    /\ isLoading = FALSE
    /\ error = << >>
    /\ isAutoResult = FALSE
    /\ autoFitMethodResult = "BIC"
    /\ request = << >>
    /\ fitCalls = 1
    /\ points \in PointLists(MaxRegPoints)
    /\ degree \in 1..MaxRegDegree
    /\ ~TooFewForDegree(points, degree)
    /\ CalculatePolynomialRegression(points, degree).ok
    /\ coefficients = CalculatePolynomialRegression(points, degree).coefficients

\* handleInputChange on an edit that leaves text in the input.
HandleInputChange ==
    /\ view = "prediction"
    /\ \E text \in XTexts \ {Empty} : xValue' = text
    /\ UNCHANGED << solverVars, regVars, sweepVars, appVars, predictedY, formula >>

\* handleInputChange on an edit that empties the input.
HandleInputCleared ==
    /\ view = "prediction"
    /\ xValue' = Empty
    /\ predictedY' = << >>
    /\ UNCHANGED << solverVars, regVars, sweepVars, appVars, formula >>

\* handlePredict; the button is disabled while the input is empty.
HandlePredict ==
    /\ view = "prediction"
    /\ xValue # Empty
    /\ LET x == ParseFloat(xValue)
       IN  predictedY' = IF ~IsNaN(x) THEN << DiscoveredFunc(x) >> ELSE << >>
    /\ UNCHANGED << solverVars, regVars, sweepVars, appVars, xValue, formula >>

NextPredict == HandleInputChange \/ HandleInputCleared \/ HandlePredict

SpecPredict == InitPredict /\ [][NextPredict]_vars

\* predictedY !== null && !isNaN(predictedY): the result box is rendered,
\* with xValue beside predictedY.
PredictionShown == predictedY # << >> /\ ~IsNaN(predictedY[1])

(* C12: whenever the stored evaluation is NaN, Infinity or -Infinity, the   *)
(* Prediction component shows no predicted y-value.                         *)
C12_NonFiniteNotShown ==
    (predictedY # << >> /\ ~IsFinite(predictedY[1])) => ~PredictionShown

(* C15: whenever a predicted value is shown, it is discoveredFunc of the x  *)
(* shown beside it, the current text of the input.                          *)
C15_ShownPairConsistent ==
    PredictionShown => predictedY[1] = DiscoveredFunc(ParseFloat(xValue))

(***************************************************************************)
(* PrettyFormula applied to bounded coefficient vectors.  NaN is among the  *)
(* values: calculatePolynomialRegression returns NaN coefficients, without  *)
(* throwing, on data with a non-finite value.                               *)
(***************************************************************************)
MaxCoefficients == 3

\* 0, 1, -1, 2, -3, 5e-10, 1e-9, 1 + 5e-10, 1234 and NaN.
FormulaValues ==
    {Rat(0), Rat(1), Rat(-1), Rat(2), Rat(-3), << 1, 2 * NanoInv >>,
     << 1, NanoInv >>, << 2 * NanoInv + 1, 2 * NanoInv >>, Rat(1234), NaN}

FormulaVectors == UNION {[1..n -> FormulaValues] : n \in 0..MaxCoefficients}

InitFormula ==
    /\ SolverIdle
    /\ SweepIdle
    /\ AppIdle
    /\ PredictionMounted
    /\ \E c \in FormulaVectors : formula = << [coefficients |-> c, rendered |-> << >>] >>

\* The component is rendered on its prop.
Render ==
    /\ formula # << >>
    /\ formula[1].rendered = << >>
    /\ formula' = << [formula[1] EXCEPT
                        !.rendered = << PrettyFormula(formula[1].coefficients) >>] >>
    /\ UNCHANGED << solverVars, regVars, sweepVars, appVars, predVars >>

\* if (!coefficients || coefficients.length === 0) return <span>f(x) = 0</span>
RenderEmpty ==
    /\ formula # << >>
    /\ Len(formula[1].coefficients) = 0
    /\ Render

\* if (parts.length === 0) return ... <span>0</span>
RenderZero ==
    /\ formula # << >>
    /\ Len(formula[1].coefficients) > 0
    /\ Len(PartsFrom(formula[1].coefficients, 0, << >>)) = 0
    /\ Render

\* return ... {parts}
RenderTerms ==
    /\ formula # << >>
    /\ Len(formula[1].coefficients) > 0
    /\ Len(PartsFrom(formula[1].coefficients, 0, << >>)) > 0
    /\ Render

NextFormula == RenderEmpty \/ RenderZero \/ RenderTerms

SpecFormula == InitFormula /\ [][NextFormula]_vars

(***************************************************************************)
(* Reference notions for the claims about PrettyFormula.                    *)
(***************************************************************************)
Rendered == formula # << >> /\ formula[1].rendered # << >>

\* The prop and the output of the rendering.
Coeffs == formula[1].coefficients

Out == formula[1].rendered[1]

\* The output reads f(x) = 0: the single span, or "f(x) =" and the span 0.
ReadsZero(out) ==
    \/ out = [literal |-> "f(x) = 0", parts |-> << >>]
    \/ out = [literal |-> "f(x) =", parts |-> << ZeroToken >>]

\* The tokens of the terms.
TermTokens(out) == IF ReadsZero(out) THEN << >> ELSE out.parts

\* The powers that have a term in the output.
TermPowers(out) == {TermTokens(out)[k].power : k \in 1..Len(TermTokens(out))}

\* The kinds of the tokens of power p, in the order of the output.
KindsAt(out, p) ==
    LET RECURSIVE Kinds(_)
        Kinds(k) ==
            IF k > Len(TermTokens(out)) THEN << >>
            ELSE (IF TermTokens(out)[k].power = p
                  THEN << TermTokens(out)[k].kind >> ELSE << >>) \o Kinds(k + 1)
    IN  Kinds(1)

\* The token of the given kind at power p is there.
HasToken(out, p, kind) ==
    \E k \in 1..Len(TermTokens(out)) :
        TermTokens(out)[k].power = p /\ TermTokens(out)[k].kind = kind

\* The text of the sign token at power p.
SignAt(out, p) ==
    LET k == CHOOSE j \in 1..Len(TermTokens(out)) :
                 TermTokens(out)[j].power = p /\ TermTokens(out)[j].kind = "sign"
    IN  TermTokens(out)[k].text

\* Powers never increase along the output: the terms are in strictly
\* descending order, the tokens of a term together.
DescendingPowers(out) ==
    \A j, k \in 1..Len(TermTokens(out)) :
        j < k => TermTokens(out)[j].power >= TermTokens(out)[k].power

\* |c| >= 1e-9 as the comparison of numbers: false of NaN.
AtLeastNano(q) == ~IsNaN(q) /\ ~BelowNano(RAbs(q))

(* C13 as stated: the output has a term for power i exactly when            *)
(* |c[i]| >= 1e-9, the terms are in strictly descending power order, and    *)
(* the output is the literal f(x) = 0 when no term qualifies.               *)
C13_TermsWherePresent_Original ==
    Rendered =>
        /\ TermPowers(Out) = {i \in 0..Len(Coeffs) - 1 : AtLeastNano(Coeffs[i + 1])}
        /\ DescendingPowers(Out)
        /\ (TermPowers(Out) = {}) = ReadsZero(Out)

(* C13 amended: the output has a term for power i exactly when NOT          *)
(* |c[i]| < 1e-9, which is the case for |c[i]| >= 1e-9 and for a NaN c[i];  *)
(* the terms are in strictly descending power order, each power at most     *)
(* once; the output reads f(x) = 0 exactly when no term qualifies.          *)
C13_TermsWherePresent ==
    Rendered =>
        /\ TermPowers(Out) = {i \in 0..Len(Coeffs) - 1 : ~BelowNano(RAbs(Coeffs[i + 1]))}
        /\ DescendingPowers(Out)
        /\ \A p \in TermPowers(Out) : \A kind \in {"sign", "coeff", "x", "sup"} :
              Cardinality({k \in 1..Len(TermTokens(Out)) :
                              TermTokens(Out)[k].power = p
                              /\ TermTokens(Out)[k].kind = kind}) <= 1
        /\ (TermPowers(Out) = {}) = ReadsZero(Out)

\* A vector with a skipped coefficient, the coefficient 1e-9 and a NaN.
C13_Witness ==
    /\ Rendered
    /\ \E i, j, k \in 1..Len(Coeffs) :
          /\ IsNaN(Coeffs[i])
          /\ Coeffs[j] = << 1, NanoInv >>
          /\ Coeffs[k] = << 1, 2 * NanoInv >>
    /\ Cardinality(TermPowers(Out)) = 2

(* C14: for every emitted term of power p and coefficient c, (i) the        *)
(* leading term has a sign token exactly when c < 0, and it is '-'; every   *)
(* later term has a sign token, '+' for c > 0 and '-' for c < 0; (ii) the   *)
(* magnitude token is there iff p = 0 or | |c| - 1 | > 1e-9; (iii) the      *)
(* variable token iff p >= 1 and the exponent token iff p >= 2; the tokens  *)
(* of a term are in the order sign, magnitude, variable, exponent.  And     *)
(* [0, 0, 1] renders as x^2, [2, -3] as -3x + 2.                            *)
C14_TermRendering ==
    Rendered =>
        /\ \A p \in TermPowers(Out) :
              LET c == Coeffs[p + 1]
                  leading == \A q \in TermPowers(Out) : q <= p
                  signs == IF HasToken(Out, p, "sign") THEN << "sign" >> ELSE << >>
                  mags == IF HasToken(Out, p, "coeff") THEN << "coeff" >> ELSE << >>
                  xs == IF HasToken(Out, p, "x") THEN << "x" >> ELSE << >>
                  sups == IF HasToken(Out, p, "sup") THEN << "sup" >> ELSE << >>
              IN  /\ leading =>
                        /\ HasToken(Out, p, "sign") = RLess(c, Rat(0))
                        /\ HasToken(Out, p, "sign") => SignAt(Out, p) = "-"
                  /\ ~leading =>
                        /\ HasToken(Out, p, "sign")
                        /\ SignAt(Out, p) \in {"+", "-"}
                        /\ RLess(Rat(0), c) => SignAt(Out, p) = "+"
                        /\ RLess(c, Rat(0)) => SignAt(Out, p) = "-"
                  /\ HasToken(Out, p, "coeff") =
                        (p = 0 \/ AboveNano(RAbs(RSub(RAbs(c), Rat(1)))))
                  /\ HasToken(Out, p, "x") = (p >= 1)
                  /\ HasToken(Out, p, "sup") = (p >= 2)
                  /\ KindsAt(Out, p) = signs \o mags \o xs \o sups
        /\ Coeffs = << Rat(0), Rat(0), Rat(1) >> =>
              Out = [literal |-> "f(x) =", parts |-> << XToken(2), SupToken(2) >>]
        /\ Coeffs = << Rat(2), Rat(-3) >> =>
              Out = [literal |-> "f(x) =",
                     parts |-> << SignToken(1, "-"), CoeffToken(1, Rat(3)), XToken(1),
                                  SignToken(0, "+"), CoeffToken(0, Rat(2)) >>]

\* [2, -3] has been rendered.
C14_Witness == Rendered /\ Coeffs = << Rat(2), Rat(-3) >>

====
